---- MODULE Spec2Model ----
(***************************************************************************)
(* Typing-resolution engine, score ledger, difficulty curve and session    *)
(* coordinator of the Asteroids typing game.                               *)
(*                                                                         *)
(* JavaScript strings are sequences of one-character strings, so that      *)
(* length, toLowerCase, startsWith and slice are computed, not assumed.    *)
(* `null` ids are NULL (0); a `null` character argument is NullChar.        *)
(*                                                                         *)
(* Every JavaScript function is an operator from program state to program  *)
(* state (the record State), so a handler and the calls it makes, the      *)
(* listeners of the signals it emits included, compose into one action.    *)
(* The Earth and shield components keep their health outside this model:   *)
(* whether a hit is the one that destroys the Earth is an input of the     *)
(* action that applies it.                                                  *)
(***************************************************************************)
EXTENDS Integers, Sequences, FiniteSets, TLC

VARIABLES
    targets,          \* TypingEngine.targets : id -> [word, originalWord]
    currentTargetId,  \* TypingEngine.currentTargetId
    currentIndex,     \* TypingEngine.currentIndex
    buffer,           \* TypingEngine.buffer
    score,            \* ScoreManager.score
    streak,           \* ScoreManager.streak
    multiplier,       \* ScoreManager.multiplier
    wordsTyped,       \* ScoreManager.wordsTyped
    charsTyped,       \* ScoreManager.charsTyped
    mistakes,         \* ScoreManager.mistakes
    level,            \* DifficultyManager.level
    dmWordsTyped,     \* DifficultyManager.wordsTyped
    state,            \* GameEngine.state
    gamePaused,       \* window.__GAME_PAUSED__ === true
    entities,         \* asteroid entities : id -> [word, destroyed, attached]
    projectiles,      \* target ids of ProjectileSystem.projectiles
    shipProjectiles,  \* #spaceship carries a projectile-system component
    inputFocused,     \* the typing-display's hidden input has the focus
    elapsed,          \* performance.now() - GameEngine.lastSpawnTime, in ms
    played,           \* ms spent in PLAYING since lastSpawnTime was set
    events,           \* signals emitted by TypingEngine during the last call
    pending,          \* submitScore promises not yet settled
    supabase,         \* the Supabase client exists (its environment is set)
    scoresTable,      \* rows of the table 'scores', in the order of insertion
    request,          \* req.body of the last request to POST /api/scores
    words,            \* the dataset imported from data/words.js : tier -> list
    pools,            \* WordGenerator.pools : tier -> shuffled list
    currentIndices,   \* WordGenerator.currentIndices : tier -> index (from 0)
    served,           \* tier -> words getWord served in the tier's current pass
    returned,         \* the value last returned during the last call: [type, value]
    invoked,          \* ScoreManager / DifficultyManager calls of the last call
    removed,          \* TypingEngine.removeTarget calls of the last call
    sceneEmitted,     \* events emitted on the scene during the last call
    submitted,        \* score records handed to submitScore during the last call
    scored,           \* ids of the asteroids scored during the last call
    scheduled,        \* gameLoop callbacks waiting for the next animation frame
    call              \* the last call made from outside: [op, id, key, word]

engineVars == <<targets, currentTargetId, currentIndex, buffer>>
scoreVars == <<score, streak, multiplier, wordsTyped, charsTyped, mistakes>>
difficultyVars == <<level, dmWordsTyped>>
sceneVars == <<state, gamePaused, entities, projectiles, shipProjectiles, inputFocused>>
clockVars == <<elapsed, played, scheduled>>
apiVars == <<pending>>
backendVars == <<supabase, scoresTable, request>>
wordVars == <<words, pools, currentIndices>>
historyVars == <<events, invoked, removed, call, served, returned,
                 sceneEmitted, submitted, scored>>
vars == <<engineVars, scoreVars, difficultyVars, sceneVars, clockVars, apiVars,
          backendVars, wordVars, historyVars>>

-----------------------------------------------------------------------------
(* Bounds of the model *)

MaxIds == 3          \* target ids are 1..MaxIds
MaxWords == 1        \* words scored in one session
MaxAsteroids == 2    \* asteroid entities alive at once
MaxLedgerWords == 6  \* words of any length and tier completed in one run
MaxStreak == 26      \* words completed in one run of streaks
MaxMistakes == 1     \* mistakes in one run of the score ledger
MaxSpawnWords == 46  \* words scored in a session with one asteroid at a time
MaxTierWords == 21   \* words scored in a session with two asteroids at a time
CrowdedFrom == 18    \* words scored before two asteroids are on screen at a time
MaxScheduled == 3    \* gameLoop callbacks waiting for one frame
MaxRows == 1         \* rows stored in the table 'scores'
MaxPending == 1      \* score submissions in flight at once
MaxDifficultyWords == 200  \* words counted in one run of the difficulty curve
TimeStep == 1000     \* ms between two readings of the clock

Ids == 1..MaxIds
AsteroidIds == 1..MaxAsteroids
NULL == 0
NullChar == "null"

(* The characters keys and words are made of: two letters in both cases,   *)
(* a digit and a space.                                                    *)
LowerAZ == {"a", "b"}
UpperAZ == {"A", "B"}
OtherChars == {"1", " "}

(* Keys of a keydown event: single characters, the empty string and the    *)
(* names of non-character keys.                                             *)
KeyEscape == <<"E", "s", "c", "a", "p", "e">>
KeyBackspace == <<"B", "a", "c", "k", "s", "p", "a", "c", "e">>
KeyShift == <<"S", "h", "i", "f", "t">>
SingleCharKeys == {<<c>> : c \in LowerAZ \cup UpperAZ \cup OtherChars}
Keys == SingleCharKeys \cup {<< >>, KeyShift}
EventKeys == {<<"a">>, <<"b">>, KeyBackspace, KeyEscape}

(* Words handed to addTarget: a one-letter word, two words sharing their   *)
(* first letter, a capitalised word, a word with another first letter, and  *)
(* the empty word.                                                          *)
WordPool == {<<"a">>, <<"a", "b">>, <<"a", "a">>, <<"A", "b">>, <<"b", "a">>, << >>}

(* Words and tiers handed to ScoreManager.handleWordComplete; "expert" is  *)
(* a tier it does not know.                                                 *)
LedgerWords == {<<"a">>, <<"r", "o", "c", "k", "e", "t">>}
Tiers == {"easy", "moderate", "hard", "expert"}

(* Words of the pool spawnEnemy draws from *)
GameWords == {<<"a">>, <<"a", "b">>, <<"b", "a">>}

(* data/words.js: three, two and one of the words of the shipped lists, as *)
(* the dataset WordGenerator imports, and the datasets with a list left    *)
(* out, which the WordGenerator constructor turns into an empty pool.      *)
DIFFICULTIES == {"easy", "moderate", "hard"}
easyWords == << <<"c", "a", "t">>, <<"d", "o", "g">>, <<"s", "u", "n">> >>
moderateWords == << <<"o", "r", "b", "i", "t">>, <<"c", "o", "m", "e", "t">> >>
hardWords == << <<"t", "e", "l", "e", "m", "e", "t", "r", "y">> >>
shippedWords == [easy |-> easyWords, moderate |-> moderateWords, hard |-> hardWords]
Datasets ==
    { shippedWords,
      [shippedWords EXCEPT !.hard = << >>],
      [shippedWords EXCEPT !.easy = << >>] }

\* the list getFallbackWord picks from
fallbacks ==
    << <<"w", "o", "r", "d">>, <<"t", "y", "p", "e">>, <<"g", "a", "m", "e">>,
       <<"p", "l", "a", "y">>, <<"t", "e", "s", "t">> >>

-----------------------------------------------------------------------------
(* String primitives *)

\* String.prototype.toLowerCase on one character
toLowerCaseChar(c) ==
    CASE c = "A" -> "a"
      [] c = "B" -> "b"
      [] OTHER -> c

\* String.prototype.toLowerCase
toLowerCase(str) == [i \in 1..Len(str) |-> toLowerCaseChar(str[i])]

\* String.prototype.startsWith
startsWith(str, prefix) ==
    /\ Len(prefix) <= Len(str)
    /\ \A i \in 1..Len(prefix) : str[i] = prefix[i]

\* str.slice(0, -1)
sliceDropLast(str) == SubSeq(str, 1, Len(str) - 1)

\* /^[a-z]$/.test(char)
isLowerLetter(char) == char \in LowerAZ

-----------------------------------------------------------------------------
(* Program state *)

\* A JavaScript value handed back to the caller, with its typeof
Returned(type, value) == [type |-> type, value |-> value]

State ==
    [targets |-> targets, currentTargetId |-> currentTargetId,
     currentIndex |-> currentIndex, buffer |-> buffer,
     score |-> score, streak |-> streak, multiplier |-> multiplier,
     wordsTyped |-> wordsTyped, charsTyped |-> charsTyped, mistakes |-> mistakes,
     level |-> level, dmWordsTyped |-> dmWordsTyped,
     state |-> state, gamePaused |-> gamePaused, entities |-> entities,
     projectiles |-> projectiles, shipProjectiles |-> shipProjectiles,
     inputFocused |-> inputFocused, elapsed |-> elapsed, played |-> played,
     pending |-> pending, scheduled |-> scheduled,
     supabase |-> supabase, scoresTable |-> scoresTable, request |-> request,
     words |-> words, pools |-> pools, currentIndices |-> currentIndices,
     served |-> served, returned |-> Returned("undefined", NULL),
     events |-> << >>, invoked |-> << >>, removed |-> << >>,
     sceneEmitted |-> << >>, submitted |-> << >>, scored |-> << >>]

\* An entity no longer in the document and no projectile's target is garbage
liveEntities(s) ==
    [i \in {j \in DOMAIN s.entities :
                s.entities[j].attached \/ j \in s.projectiles} |-> s.entities[i]]

\* the variables take the values of the record s; c is the call that led to it
Assign(s, c) ==
    /\ targets' = s.targets
    /\ currentTargetId' = s.currentTargetId
    /\ currentIndex' = s.currentIndex
    /\ buffer' = s.buffer
    /\ score' = s.score
    /\ streak' = s.streak
    /\ multiplier' = s.multiplier
    /\ wordsTyped' = s.wordsTyped
    /\ charsTyped' = s.charsTyped
    /\ mistakes' = s.mistakes
    /\ level' = s.level
    /\ dmWordsTyped' = s.dmWordsTyped
    /\ state' = s.state
    /\ gamePaused' = s.gamePaused
    /\ entities' = liveEntities(s)
    /\ projectiles' = s.projectiles
    /\ shipProjectiles' = s.shipProjectiles
    /\ inputFocused' = s.inputFocused
    /\ elapsed' = s.elapsed
    /\ played' = s.played
    /\ pending' = s.pending
    /\ supabase' = s.supabase
    /\ scoresTable' = s.scoresTable
    /\ request' = s.request
    /\ words' = s.words
    /\ pools' = s.pools
    /\ currentIndices' = s.currentIndices
    /\ served' = s.served
    /\ returned' = s.returned
    /\ events' = s.events
    /\ invoked' = s.invoked
    /\ removed' = s.removed
    /\ sceneEmitted' = s.sceneEmitted
    /\ submitted' = s.submitted
    /\ scored' = s.scored
    /\ scheduled' = s.scheduled
    /\ call' = c

Commit(s, c) ==
    /\ s.wordsTyped <= MaxWords
    /\ s.pending <= MaxPending
    /\ Assign(s, c)

Call(op, id, key, word) == [op |-> op, id |-> id, key |-> key, word |-> word]

\* A signal as a listener receives it, with the engine state it can observe
Signal(s, name, id, index, char, ids, word) ==
    [name |-> name, id |-> id, index |-> index, char |-> char, ids |-> ids,
     word |-> word, buf |-> s.buffer, lock |-> s.currentTargetId]

Invocation(fn, word, tier) == [fn |-> fn, word |-> word, tier |-> tier]

-----------------------------------------------------------------------------
(* ScoreManager *)

ScoreManager_reset(s) ==
    [s EXCEPT !.score = 0, !.streak = 0, !.multiplier = 1, !.wordsTyped = 0,
              !.charsTyped = 0, !.mistakes = 0]

\* getAccuracy(), in hundredths of a percent: Math.round(x * 10000) / 100
getAccuracy(s) ==
    LET totalKeystrokes == s.charsTyped + s.mistakes
    IN IF totalKeystrokes = 0 THEN 10000
       ELSE (2 * s.charsTyped * 10000 + totalKeystrokes) \div (2 * totalKeystrokes)

\* getSessionStats() without wpm and durationSeconds, which read the clock
getSessionStats(s) ==
    [score |-> s.score, maxStreak |-> s.streak, accuracy |-> getAccuracy(s),
     wordsTyped |-> s.wordsTyped, mistakes |-> s.mistakes]

\* twice the factor of _getDifficultyMultiplier: 2.0, 1.5 and 1.0
twiceDifficultyMultiplier(difficulty) ==
    CASE difficulty = "hard" -> 4
      [] difficulty = "moderate" -> 3
      [] OTHER -> 2

\* faulty variant: the multiplier is not capped
increaseStreak_NoCap(s) ==
    LET n == s.streak + 1
    IN [s EXCEPT !.streak = n, !.multiplier = 1 + (n \div 5)]

increaseStreak(s) ==
    LET n == s.streak + 1
        m == 1 + (n \div 5)
    IN [s EXCEPT !.streak = n, !.multiplier = IF m > 5 THEN 5 ELSE m]

\* faulty variant: the streak is increased before the points are computed
handleWordComplete_StreakFirst(s, word, difficulty) ==
    LET s0 == increaseStreak(s)
        basePoints == Len(word) * 10
        points == (basePoints * twiceDifficultyMultiplier(difficulty) * s0.multiplier) \div 2
    IN [s0 EXCEPT !.score = @ + points, !.wordsTyped = @ + 1,
                  !.charsTyped = @ + Len(word),
                  !.invoked = Append(@, Invocation("handleWordComplete", word, difficulty))]

handleWordComplete(s, word, difficulty) ==
    LET basePoints == Len(word) * 10
        points == (basePoints * twiceDifficultyMultiplier(difficulty) * s.multiplier) \div 2
        s1 == [s EXCEPT !.score = @ + points, !.wordsTyped = @ + 1,
                        !.charsTyped = @ + Len(word),
                        !.invoked = Append(@, Invocation("handleWordComplete", word, difficulty))]
    IN increaseStreak(s1)

\* faulty variant: a mistake ends the streak but keeps the multiplier
handleMistake_KeepsMultiplier(s) ==
    [s EXCEPT !.mistakes = @ + 1, !.streak = 0,
              !.invoked = Append(@, Invocation("handleMistake", << >>, ""))]

handleMistake(s) ==
    [s EXCEPT !.mistakes = @ + 1, !.streak = 0, !.multiplier = 1,
              !.invoked = Append(@, Invocation("handleMistake", << >>, ""))]

-----------------------------------------------------------------------------
(* DifficultyManager *)

wordsPerLevel == 5
baseSpawnInterval == 2500
minSpawnInterval == 600
intervalDecrement == 50
baseEnemySpeedTenths == 10   \* baseEnemySpeed 1.0, counted in tenths
speedIncrementTenths == 1    \* speedIncrement 0.1, counted in tenths

DifficultyManager_reset(s) == [s EXCEPT !.level = 1, !.dmWordsTyped = 0]

\* onWordTyped testing the counter before it is incremented
onWordTyped_TestsBeforeCounting(s) ==
    LET n == s.dmWordsTyped + 1
        up == s.dmWordsTyped % wordsPerLevel = 0
    IN [s EXCEPT !.dmWordsTyped = n,
                 !.level = IF up THEN @ + 1 ELSE @,
                 !.returned = Returned("boolean", up),
                 !.invoked = Append(@, Invocation("onWordTyped", << >>, ""))]

onWordTyped(s) ==
    LET n == s.dmWordsTyped + 1
    IN [s EXCEPT !.dmWordsTyped = n,
                 !.level = IF n % wordsPerLevel = 0 THEN @ + 1 ELSE @,
                 !.returned = Returned("boolean", n % wordsPerLevel = 0),
                 !.invoked = Append(@, Invocation("onWordTyped", << >>, ""))]

\* getSpawnInterval without the Math.max
getSpawnInterval_NoFloor(s) ==
    baseSpawnInterval - (s.level - 1) * intervalDecrement

getSpawnInterval(s) ==
    LET interval == baseSpawnInterval - (s.level - 1) * intervalDecrement
    IN IF interval > minSpawnInterval THEN interval ELSE minSpawnInterval

\* getEnemySpeed(), in tenths
getEnemySpeed(s) == baseEnemySpeedTenths + (s.level - 1) * speedIncrementTenths

\* faulty variant: level 10 still asks for moderate words
getWordDifficulty_LateHard(s) ==
    IF s.level < 5 THEN "easy"
    ELSE IF s.level <= 10 THEN "moderate"
    ELSE "hard"

getWordDifficulty(s) ==
    IF s.level < 5 THEN "easy"
    ELSE IF s.level < 10 THEN "moderate"
    ELSE "hard"

-----------------------------------------------------------------------------
(* Backend: POST /api/scores *)

(* Request bodies: JSON values with their typeof.  Names are missing, not a *)
(* string, empty, blank, short, of the greatest length and one longer.      *)
maxNameLength == 50
Undefined == Returned("undefined", NULL)
Body(player_name, sc, accuracy) ==
    [player_name |-> player_name, score |-> sc, accuracy |-> accuracy,
     words_typed |-> Undefined, game_duration |-> Undefined, difficulty |-> Undefined]
NameValues ==
    { Undefined,
      Returned("number", 7),
      Returned("string", << >>),
      Returned("string", <<" ", " ">>),
      Returned("string", <<"A", "l">>),
      Returned("string", [i \in 1..maxNameLength |-> "x"]),
      Returned("string", [i \in 1..(maxNameLength + 1) |-> "x"]) }
ScoreValues ==
    { Undefined, Returned("object", NULL), Returned("string", <<"1", "0">>),
      Returned("number", -1), Returned("number", 10) }
AccuracyValues ==
    { Undefined, Returned("number", -5), Returned("number", 50),
      Returned("number", 150) }

\* String.prototype.trim, for the white space " "
RECURSIVE trimStart(_)
trimStart(str) ==
    IF str # << >> /\ Head(str) = " " THEN trimStart(Tail(str)) ELSE str

RECURSIVE trimEnd(_)
trimEnd(str) ==
    IF str # << >> /\ str[Len(str)] = " " THEN trimEnd(sliceDropLast(str)) ELSE str

trim(str) == trimEnd(trimStart(str))

\* !value
falsy(v) ==
    \/ v.type = "undefined"
    \/ v.type = "object" /\ v.value = NULL
    \/ v.type = "string" /\ v.value = << >>
    \/ v.type = "number" /\ v.value = 0

\* value || other
orElse(v, other) == IF falsy(v) THEN other ELSE v

\* res.status(code).json(...)
respond(s, code) == [s EXCEPT !.returned = Returned("status", code)]

\* createScore(req, res); dbError is the error of the insert, if any
createScore(s, body, dbError) ==
    LET player_name == body.player_name
        sc == body.score
        s0 == [s EXCEPT !.request = body]
    IN IF ~s.supabase THEN respond(s0, 503)
       ELSE IF \/ falsy(player_name)
               \/ player_name.type # "string"
               \/ trim(player_name.value) = << >>
               \/ sc.type = "undefined"
       THEN respond(s0, 400)
       ELSE IF Len(player_name.value) > maxNameLength THEN respond(s0, 400)
       ELSE IF sc.type # "number" THEN respond(s0, 400)
       ELSE IF sc.value < 0 THEN respond(s0, 400)
       ELSE IF dbError THEN respond(s0, 500)
       ELSE respond([s0 EXCEPT !.scoresTable = Append(@,
                        [player_name |-> player_name,
                         score |-> sc,
                         words_typed |-> orElse(body.words_typed, Returned("number", 0)),
                         accuracy |-> orElse(body.accuracy, Returned("number", 0)),
                         game_duration |-> orElse(body.game_duration, Returned("number", 0)),
                         difficulty |-> orElse(body.difficulty,
                                               Returned("string", <<"normal">>))])],
                    201)

-----------------------------------------------------------------------------
(* WordGenerator *)

\* pickRandom(arr): every value Math.random can select
pickRandom(arr) ==
    IF Len(arr) = 0 THEN {Returned("object", NULL)}
    ELSE {Returned("string", arr[i]) : i \in 1..Len(arr)}

\* [a[i], a[j]] = [a[j], a[i]]
swap(a, i, j) == [a EXCEPT ![i] = a[j], ![j] = a[i]]

\* the loop of shuffleArray from position i down, over every j Math.random
\* can give (positions count from 1 here, from 0 in the source)
RECURSIVE shuffleFrom(_, _)
shuffleFrom(arrays, i) ==
    IF i <= 1 THEN arrays
    ELSE shuffleFrom({swap(a, i, j) : a \in arrays, j \in 1..i}, i - 1)

\* shuffleArray copying shuffled[j] into shuffled[i] without the exchange
shuffleArray_Overwrites(array) ==
    {[array EXCEPT ![i] = array[j]] : i \in 1..Len(array), j \in 1..Len(array)}

\* shuffleArray(array): the set of arrays it can return
shuffleArray(array) == shuffleFrom({array}, Len(array))

\* getFallbackWord(), given what pickRandom selected
getFallbackWord(picked) == picked

\* the words served in a tier's pass, once w is served from a pool of n
servedAfter(pass, w, n) == IF Len(pass) >= n THEN <<w>> ELSE Append(pass, w)

\* getWord reading the empty pool instead of asking for a fallback word
getWord_NoFallback(s, difficulty, shuffled, picked) ==
    LET key == IF difficulty \in DIFFICULTIES THEN difficulty ELSE "easy"
        pool == s.pools[key]
    IN IF Len(pool) = 0
       THEN [s EXCEPT !.returned = Returned("undefined", NULL)]
       ELSE LET word == pool[s.currentIndices[key] + 1]
                next == (s.currentIndices[key] + 1) % Len(pool)
            IN [s EXCEPT !.currentIndices[key] = next,
                         !.pools[key] = IF next = 0 THEN shuffled ELSE @,
                         !.served[key] = servedAfter(@, word, Len(pool)),
                         !.returned = Returned("string", word)]

\* getWord(difficulty); shuffled is what shuffleArray returns on wraparound
\* and picked what pickRandom selects among the fallbacks
getWord(s, difficulty, shuffled, picked) ==
    LET key == IF difficulty \in DIFFICULTIES THEN difficulty ELSE "easy"
        pool == s.pools[key]
    IN IF Len(pool) = 0
       THEN [s EXCEPT !.returned = getFallbackWord(picked)]
       ELSE LET word == pool[s.currentIndices[key] + 1]
                next == (s.currentIndices[key] + 1) % Len(pool)
            IN [s EXCEPT !.currentIndices[key] = next,
                         !.pools[key] = IF next = 0 THEN shuffled ELSE @,
                         !.served[key] = servedAfter(@, word, Len(pool)),
                         !.returned = Returned("string", word)]

-----------------------------------------------------------------------------
(* TypingEngine: state, removal, reset *)

\* TypingEngine._emit for the signals whose listeners only repaint
\* (highlighting in GameEngine._setupTypingEvents, the typing-display HUD)
emit(s, sig) == [s EXCEPT !.events = Append(@, sig)]

\* faulty variant: the word is stored in the case it was given in
addTarget_KeepsCase(s, id, word) ==
    IF word = << >> THEN s
    ELSE [s EXCEPT !.targets =
            [i \in DOMAIN s.targets \cup {id} |->
                IF i = id THEN [word |-> word, originalWord |-> word]
                ELSE s.targets[i]]]

addTarget(s, id, word) ==
    IF word = << >> THEN s
    ELSE [s EXCEPT !.targets =
            [i \in DOMAIN s.targets \cup {id} |->
                IF i = id THEN [word |-> toLowerCase(word), originalWord |-> word]
                ELSE s.targets[i]]]

\* faulty variant: the index into the locked word survives the reset
resetState_KeepsIndex(s) ==
    LET s1 == [s EXCEPT !.currentTargetId = NULL, !.buffer = << >>]
    IN emit(s1, Signal(s1, "onReset", NULL, 0, NullChar, {}, << >>))

resetState(s) ==
    LET s1 == [s EXCEPT !.currentTargetId = NULL, !.currentIndex = 0,
                        !.buffer = << >>]
    IN emit(s1, Signal(s1, "onReset", NULL, 0, NullChar, {}, << >>))

\* what a caller of removeTarget(id) observes when it returns: s before, t after
Removal(s, t, id) ==
    [id |-> id, wasLocked |-> s.currentTargetId = id,
     lock |-> t.currentTargetId, buf |-> t.buffer,
     signals |-> [j \in 1..(Len(t.events) - Len(s.events)) |->
                     t.events[Len(s.events) + j].name],
     present |-> id \in DOMAIN t.targets]

\* faulty variant: the target is deleted while the lock still points to it
removeTarget_KeepsLock(s, id) ==
    LET s2 == [s EXCEPT !.targets = [i \in DOMAIN s.targets \ {id} |-> s.targets[i]]]
    IN [s2 EXCEPT !.removed = Append(@, Removal(s, s2, id))]

removeTarget(s, id) ==
    LET s1 == IF s.currentTargetId = id THEN resetState(s) ELSE s
        s2 == [s1 EXCEPT !.targets = [i \in DOMAIN s1.targets \ {id} |-> s1.targets[i]]]
    IN [s2 EXCEPT !.removed = Append(@, Removal(s, s2, id))]

-----------------------------------------------------------------------------
(* asteroid-component, projectile-system and the scene listeners *)

\* the 'asteroid-destroyed' listener GameEngine.init puts on the scene
onAsteroidDestroyed(s, id, typed) ==
    IF typed /\ id \in DOMAIN s.entities
    THEN onWordTyped(handleWordComplete([s EXCEPT !.scored = Append(@, id)],
                                        s.entities[id].word, getWordDifficulty(s)))
    ELSE s

\* faulty variant: every destruction is reported as typed
destroy_AlwaysTyped(s, id, typed) ==
    IF s.entities[id].destroyed THEN s
    ELSE LET s1 == [s EXCEPT !.entities[id].destroyed = TRUE]
             s2 == removeTarget(s1, id)
             s3 == onAsteroidDestroyed(s2, id, TRUE)
         IN [s3 EXCEPT !.entities[id].attached = FALSE]

\* asteroid-component.destroy(typed)
destroy(s, id, typed) ==
    IF s.entities[id].destroyed THEN s
    ELSE LET s1 == [s EXCEPT !.entities[id].destroyed = TRUE]
             s2 == removeTarget(s1, id)
             s3 == onAsteroidDestroyed(s2, id, typed)
         IN [s3 EXCEPT !.entities[id].attached = FALSE]

\* asteroid-component.removeSelf()
removeSelf(s, id) ==
    LET s1 == removeTarget(s, id)
        s2 == onAsteroidDestroyed(s1, id, FALSE)
    IN [s2 EXCEPT !.entities[id].attached = FALSE]

\* projectile-system.fireAtTarget(el)
fireAtTarget(s, id) == [s EXCEPT !.projectiles = @ \cup {id}]

\* projectile-system.clearAll()
clearAll(s) == [s EXCEPT !.projectiles = {}]

\* the onComplete listener of GameEngine._setupTypingEvents
onCompleteListener(s, targetId) ==
    IF ~(targetId \in DOMAIN s.entities /\ s.entities[targetId].attached) THEN s
    ELSE IF s.shipProjectiles THEN fireAtTarget(s, targetId)
    ELSE destroy(s, targetId, TRUE)

\* the onMistake listener of GameEngine._setupTypingEvents: it only takes the
\* highlight off every asteroid
onMistakeListener(s) == s

-----------------------------------------------------------------------------
(* TypingEngine: keystrokes *)

\* TypingEngine._emit('onMistake', char) and its listeners
emitOnMistake(s, char) ==
    onMistakeListener(emit(s, Signal(s, "onMistake", NULL, 0, char, {}, << >>)))

\* TypingEngine._emit('onComplete', id, originalWord) and its listeners
\* _emit('onComplete', id, word) and its listener; an asteroid whose word
\* was completed is marked as such for as long as it is referred to
emitOnComplete(s, id, word) ==
    LET s1 == emit(s, Signal(s, "onComplete", id, 0, NullChar, {}, word))
        s2 == IF id \in DOMAIN s1.entities
              THEN [s1 EXCEPT !.entities[id].completed = TRUE] ELSE s1
    IN onCompleteListener(s2, id)

\* the ids pushed to `candidates` by the loop over this.targets.entries()
candidates(s) == {id \in DOMAIN s.targets : startsWith(s.targets[id].word, s.buffer)}

\* faulty variant: the completion test is off by one
lockAndProgress_NeverCompletes(s, id, char) ==
    LET target == s.targets[id]
        s1 == [s EXCEPT !.currentTargetId = id, !.currentIndex = Len(s.buffer)]
        s2 == emit(s1, Signal(s1, "onLock", id, 0, NullChar, {}, << >>))
        s3 == emit(s2, Signal(s2, "onProgress", id, s2.currentIndex, char, {}, << >>))
    IN IF s3.currentIndex > Len(target.word)
       THEN resetState(removeTarget(emitOnComplete(s3, id, target.originalWord), id))
       ELSE s3

\* faulty variant: a completed target is left in the map
lockAndProgress_KeepsTarget(s, id, char) ==
    LET target == s.targets[id]
        s1 == [s EXCEPT !.currentTargetId = id, !.currentIndex = Len(s.buffer)]
        s2 == emit(s1, Signal(s1, "onLock", id, 0, NullChar, {}, << >>))
        s3 == emit(s2, Signal(s2, "onProgress", id, s2.currentIndex, char, {}, << >>))
    IN IF s3.currentIndex >= Len(target.word)
       THEN resetState(emitOnComplete(s3, id, target.originalWord))
       ELSE s3

\* the branch of processKey and backspace for exactly one candidate
lockAndProgress(s, id, char) ==
    LET target == s.targets[id]
        s1 == [s EXCEPT !.currentTargetId = id, !.currentIndex = Len(s.buffer)]
        s2 == emit(s1, Signal(s1, "onLock", id, 0, NullChar, {}, << >>))
        s3 == emit(s2, Signal(s2, "onProgress", id, s2.currentIndex, char, {}, << >>))
    IN IF s3.currentIndex >= Len(target.word)
       THEN resetState(removeTarget(emitOnComplete(s3, id, target.originalWord), id))
       ELSE s3

\* faulty variant: a mistake is signalled but the typing state is kept
processKey_MistakeKeepsState(s, key) ==
    IF key = << >> \/ Len(key) # 1 THEN s
    ELSE LET char == toLowerCase(key)[1] IN
         IF ~isLowerLetter(char) THEN s
         ELSE LET s1 == [s EXCEPT !.buffer = Append(@, char)]
                  cands == candidates(s1)
              IN IF Cardinality(cands) = 0
                 THEN emitOnMistake(s1, char)
                 ELSE IF Cardinality(cands) = 1
                 THEN lockAndProgress(s1, CHOOSE id \in cands : TRUE, char)
                 ELSE emit(s1, Signal(s1, "onCandidates", NULL, 0, NullChar, cands, s1.buffer))

\* faulty variant: any single character is taken for a letter
processKey_NoLetterTest(s, key) ==
    IF key = << >> \/ Len(key) # 1 THEN s
    ELSE LET char == toLowerCase(key)[1]
             s1 == [s EXCEPT !.buffer = Append(@, char)]
             cands == candidates(s1)
         IN IF Cardinality(cands) = 0
            THEN resetState(emitOnMistake(s1, char))
            ELSE IF Cardinality(cands) = 1
            THEN lockAndProgress(s1, CHOOSE id \in cands : TRUE, char)
            ELSE emit(s1, Signal(s1, "onCandidates", NULL, 0, NullChar, cands, s1.buffer))

processKey(s, key) ==
    IF key = << >> \/ Len(key) # 1 THEN s
    ELSE LET char == toLowerCase(key)[1] IN
         IF ~isLowerLetter(char) THEN s
         ELSE LET s1 == [s EXCEPT !.buffer = Append(@, char)]
                  cands == candidates(s1)
              IN IF Cardinality(cands) = 0
                 THEN resetState(emitOnMistake(s1, char))
                 ELSE IF Cardinality(cands) = 1
                 THEN lockAndProgress(s1, CHOOSE id \in cands : TRUE, char)
                 ELSE emit(s1, Signal(s1, "onCandidates", NULL, 0, NullChar, cands, s1.buffer))

\* processKey called with each letter in turn
RECURSIVE typeLetters(_, _)
typeLetters(s, letters) ==
    IF letters = << >> THEN s
    ELSE typeLetters(processKey(s, <<Head(letters)>>), Tail(letters))

\* faulty variant: a single candidate is announced but not locked
backspace_NoRelock(s) ==
    IF s.buffer = << >> THEN s
    ELSE LET s1 == [s EXCEPT !.buffer = sliceDropLast(@)]
             cands == candidates(s1)
         IN IF Cardinality(cands) >= 1
            THEN LET s2 == [s1 EXCEPT !.currentTargetId = NULL, !.currentIndex = 0]
                 IN emit(s2, Signal(s2, "onCandidates", NULL, 0, NullChar, cands, s2.buffer))
            ELSE resetState(s1)

\* faulty variant: a backspace that leaves no candidate signals a mistake
backspace_SignalsMistake(s) ==
    IF s.buffer = << >> THEN s
    ELSE LET s1 == [s EXCEPT !.buffer = sliceDropLast(@)]
             cands == candidates(s1)
         IN IF Cardinality(cands) = 1
            THEN lockAndProgress(s1, CHOOSE id \in cands : TRUE, NullChar)
            ELSE IF Cardinality(cands) > 1
            THEN LET s2 == [s1 EXCEPT !.currentTargetId = NULL, !.currentIndex = 0]
                 IN emit(s2, Signal(s2, "onCandidates", NULL, 0, NullChar, cands, s2.buffer))
            ELSE resetState(emitOnMistake(s1, NullChar))

backspace(s) ==
    IF s.buffer = << >> THEN s
    ELSE LET s1 == [s EXCEPT !.buffer = sliceDropLast(@)]
             cands == candidates(s1)
         IN IF Cardinality(cands) = 1
            THEN lockAndProgress(s1, CHOOSE id \in cands : TRUE, NullChar)
            ELSE IF Cardinality(cands) > 1
            THEN LET s2 == [s1 EXCEPT !.currentTargetId = NULL, !.currentIndex = 0]
                 IN emit(s2, Signal(s2, "onCandidates", NULL, 0, NullChar, cands, s2.buffer))
            ELSE resetState(s1)

-----------------------------------------------------------------------------
(* GameEngine *)

\* the typing-display's 'game-start' and 'game-resumed' listeners: the HUD is
\* shown and the hidden input focused
onGameStart(s) == [s EXCEPT !.inputFocused = TRUE]

\* the typing-display's 'game-over' listener: the HUD is hidden and the hidden
\* input blurred ('game-paused' hides the HUD and leaves the focus alone)
onGameOver(s) == [s EXCEPT !.inputFocused = FALSE]

attachedAsteroids(s) == {id \in DOMAIN s.entities : s.entities[id].attached}

\* asteroids.forEach(el => { TypingEngine.removeTarget(el.id); removeChild(el) })
RECURSIVE removeAsteroids(_, _)
removeAsteroids(s, ids) ==
    IF ids = {} THEN s
    ELSE LET id == CHOOSE i \in ids : \A j \in ids : i <= j
             s1 == removeTarget(s, id)
         IN removeAsteroids([s1 EXCEPT !.entities[id].attached = FALSE], ids \ {id})

\* faulty variant: the session ends but the asteroids and their targets stay
stopGame_KeepsTargets(s) ==
    IF s.state = "GAMEOVER" THEN s
    ELSE onGameOver(clearAll([s EXCEPT !.state = "GAMEOVER", !.gamePaused = TRUE]))

\* submitScore(scoreData) up to its await of fetch: one more request in flight
submitScore(s, scoreData) ==
    [s EXCEPT !.pending = @ + 1, !.submitted = Append(@, scoreData)]

\* scene.emit('game-over', stats)
emitGameOver(s, stats) ==
    onGameOver([s EXCEPT !.sceneEmitted = Append(@, [name |-> "game-over", detail |-> stats])])

\* how the promise of submitScore settles: the record is stored, the server
\* answers with an error status, or fetch fails
submitScoreOutcomes == {"stored", "http error", "network error"}

\* faulty variant: a session already over is ended again
stopGame_NoGuard(s) ==
    LET s1 == [s EXCEPT !.state = "GAMEOVER", !.gamePaused = TRUE]
        s2 == clearAll(removeAsteroids(s1, attachedAsteroids(s1)))
        stats == getSessionStats(s2)
    IN submitScore(emitGameOver(s2, stats),
                   [score |-> stats.score, words_typed |-> stats.wordsTyped,
                    accuracy |-> stats.accuracy,
                    difficulty |-> getWordDifficulty(s2)])

\* the part of stopGame that runs before its first await
stopGame(s) ==
    IF s.state = "GAMEOVER" THEN s
    ELSE LET s1 == [s EXCEPT !.state = "GAMEOVER", !.gamePaused = TRUE]
             s2 == clearAll(removeAsteroids(s1, attachedAsteroids(s1)))
             stats == getSessionStats(s2)
         IN submitScore(emitGameOver(s2, stats),
                        [score |-> stats.score, words_typed |-> stats.wordsTyped,
                         accuracy |-> stats.accuracy,
                         difficulty |-> getWordDifficulty(s2)])

\* stopGame resumed without its try / catch around the await
stopGameResumes_NoCatch(s, outcome) ==
    LET s1 == [s EXCEPT !.pending = @ - 1]
    IN IF outcome = "stored"
       THEN [s1 EXCEPT !.returned = Returned("fulfilled", NULL)]
       ELSE [s1 EXCEPT !.returned = Returned("rejected", outcome)]

\* the rest of stopGame, once submitScore has settled: console.log of the
\* success, or the catch block's console.error; the value is how the
\* promise of stopGame itself settles
stopGameResumes(s, outcome) ==
    LET s1 == [s EXCEPT !.pending = @ - 1]
    IN IF outcome = "stored"
       THEN [s1 EXCEPT !.returned = Returned("fulfilled", NULL)]
       ELSE [s1 EXCEPT !.returned = Returned("fulfilled", NULL)]

cleanupGame(s) ==
    LET s1 == [s EXCEPT !.state = "MENU", !.gamePaused = FALSE]
        s2 == clearAll(removeAsteroids(s1, attachedAsteroids(s1)))
    IN resetState(DifficultyManager_reset(ScoreManager_reset(s2)))

startGame(s) ==
    IF s.state = "PLAYING" THEN s
    ELSE LET s1 == [s EXCEPT !.state = "PLAYING", !.gamePaused = FALSE]
             s2 == resetState(DifficultyManager_reset(ScoreManager_reset(s1)))
         IN onGameStart([s2 EXCEPT !.elapsed = 0, !.played = 0])

resetGame(s) == startGame(cleanupGame(s))

pauseGame(s) ==
    IF s.state # "PLAYING" THEN s
    ELSE [s EXCEPT !.state = "PAUSED", !.gamePaused = TRUE]

resumeGame(s) ==
    IF s.state # "PAUSED" THEN s
    ELSE onGameStart([s EXCEPT !.state = "PLAYING", !.gamePaused = FALSE])

\* faulty variant: Escape pauses whatever the state is
handleInput_EscapeAlwaysPauses(s, key) ==
    IF key = KeyEscape /\ s.state = "PAUSED" THEN resumeGame(s)
    ELSE IF key = KeyEscape THEN [s EXCEPT !.state = "PAUSED", !.gamePaused = TRUE]
    ELSE IF s.state # "PLAYING" THEN s
    ELSE IF key = KeyBackspace THEN backspace(s)
    ELSE IF Len(key) = 1 THEN processKey(s, key)
    ELSE s

handleInput(s, key) ==
    IF key = KeyEscape /\ s.state = "PLAYING" THEN pauseGame(s)
    ELSE IF key = KeyEscape /\ s.state = "PAUSED" THEN resumeGame(s)
    ELSE IF s.state # "PLAYING" THEN s
    ELSE IF key = KeyBackspace THEN backspace(s)
    ELSE IF Len(key) = 1 THEN processKey(s, key)
    ELSE s

\* the keydown listener of the typing-display's hidden input
hiddenInputKeydown(s, key) ==
    IF key = KeyBackspace THEN backspace(s)
    ELSE IF Len(key) = 1 THEN processKey(s, key)
    ELSE handleInput(s, key)

spawnEnemy(s, id, word) ==
    IF word = << >> THEN s
    ELSE LET s1 == [s EXCEPT !.entities =
                       [i \in DOMAIN s.entities \cup {id} |->
                          IF i = id
                          THEN [word |-> word, speed |-> getEnemySpeed(s),
                                destroyed |-> FALSE, attached |-> TRUE,
                                completed |-> FALSE]
                          ELSE s.entities[i]]]
         IN addTarget(s1, id, word)

\* spawnEnemy() with the word it draws: the tier of the level, the word of
\* WordGenerator.getWord for that tier, and the rest for that word
spawnEnemyDrawing(s, id, shuffled, picked) ==
    LET difficulty == getWordDifficulty(s)
        s1 == getWord(s, difficulty, shuffled, picked)
        word == s1.returned
    IN IF falsy(word) THEN s1 ELSE spawnEnemy(s1, id, word.value)

\* dt ms go by. Past the longest spawn interval the clock's reading makes no
\* difference to gameLoop and is no longer advanced.
timePasses(s, dt) ==
    [s EXCEPT !.elapsed = IF @ > baseSpawnInterval THEN @ ELSE @ + dt,
              !.played = IF s.state # "PLAYING" \/ @ > baseSpawnInterval
                         THEN @ ELSE @ + dt]

\* time goes by until the spawn interval is over
RECURSIVE waitForSpawn(_)
waitForSpawn(s) ==
    IF s.elapsed > getSpawnInterval(s) THEN s
    ELSE waitForSpawn(timePasses(s, TimeStep))

\* faulty variant: the loop spawns whatever the session state is
gameLoop_AnyState(s, id, word) ==
    IF s.elapsed > getSpawnInterval(s)
    THEN [spawnEnemy(s, id, word) EXCEPT !.elapsed = 0, !.played = 0]
    ELSE s

\* GameEngine.gameLoop(time), time being the clock's reading; id and word are
\* the id and the word spawnEnemy comes up with
gameLoop(s, id, word) ==
    IF s.state # "PLAYING" THEN s
    ELSE IF s.elapsed > getSpawnInterval(s)
    THEN [spawnEnemy(s, id, word) EXCEPT !.elapsed = 0, !.played = 0]
    ELSE s

\* requestAnimationFrame(this.gameLoop)
requestAnimationFrame(s) == [s EXCEPT !.scheduled = @ + 1]

\* startGame, resumeGame and resetGame with the frame they ask for
startGameScheduling(s) ==
    IF s.state = "PLAYING" THEN s ELSE requestAnimationFrame(startGame(s))

resumeGameScheduling(s) ==
    IF s.state # "PAUSED" THEN s ELSE requestAnimationFrame(resumeGame(s))

resetGameScheduling(s) == startGameScheduling(cleanupGame(s))

\* gameLoop(time) with the frame it asks for when the session is played
gameLoopScheduling(s, id, word) ==
    IF s.state # "PLAYING" THEN s ELSE requestAnimationFrame(gameLoop(s, id, word))

\* an animation frame: the browser takes the callbacks that wait and runs
\* each of them
RECURSIVE runCallbacks(_, _, _, _)
runCallbacks(s, n, id, word) ==
    IF n = 0 THEN s
    ELSE runCallbacks(gameLoopScheduling(s, id, word), n - 1, id, word)

animationFrame(s, id, word) ==
    runCallbacks([s EXCEPT !.scheduled = 0], s.scheduled, id, word)

\* gameLoop(time) with the word spawnEnemy draws from the pools
gameLoopDrawing(s, id, shuffled, picked) ==
    IF s.state # "PLAYING" THEN s
    ELSE IF s.elapsed > getSpawnInterval(s)
    THEN [spawnEnemyDrawing(s, id, shuffled, picked) EXCEPT !.elapsed = 0, !.played = 0]
    ELSE s

\* the keystrokes of the word of target id, typed from an empty buffer: the
\* last one finds the buffer equal to the word and id the only candidate
typeWord(s, id) ==
    LET word == s.targets[id].word
        s1 == [s EXCEPT !.buffer = word]
    IN lockAndProgress(s1, id, word[Len(word)])

\* earth.takeDamage(damage): the 'earth-destroyed' listener calls stopGame
earthTakeDamage(s, earthDestroyed) == IF earthDestroyed THEN stopGame(s) ELSE s

\* the 'shield-damaged' or 'earth-damaged' event of a takeDamage call, with
\* the asteroid whose tick made the call
emitDamaged(s, name, id) ==
    [s EXCEPT !.sceneEmitted = Append(@, [name |-> name, detail |-> id])]

\* asteroid-component.tick when the asteroid has reached something
asteroidTick(s, id, reached, earthDestroyed) ==
    IF reached = "shield" THEN destroy(emitDamaged(s, "shield-damaged", id), id, FALSE)
    ELSE IF reached = "earth"
    THEN destroy(earthTakeDamage(emitDamaged(s, "earth-damaged", id), earthDestroyed),
                 id, FALSE)
    ELSE removeSelf(earthTakeDamage(emitDamaged(s, "earth-damaged", id), earthDestroyed), id)

\* projectile-system.tick for one projectile: a hit, or its lifetime is over
projectileTick(s, id, hit) ==
    LET s1 == IF hit /\ ~s.entities[id].destroyed THEN destroy(s, id, TRUE) ELSE s
    IN [s1 EXCEPT !.projectiles = @ \ {id}]

-----------------------------------------------------------------------------
(* Initial state: the singletons as constructed, the scene loaded *)

InitSession ==
    /\ targets = << >>
    /\ currentTargetId = NULL
    /\ currentIndex = 0
    /\ buffer = << >>
    /\ score = 0 /\ streak = 0 /\ multiplier = 1
    /\ wordsTyped = 0 /\ charsTyped = 0 /\ mistakes = 0
    /\ level = 1 /\ dmWordsTyped = 0
    /\ state = "MENU"
    /\ gamePaused = FALSE
    /\ entities = << >>
    /\ projectiles = {}
    /\ shipProjectiles \in BOOLEAN
    /\ inputFocused = FALSE
    /\ elapsed = 0
    /\ played = 0
    /\ events = << >>
    /\ invoked = << >>
    /\ removed = << >>
    /\ sceneEmitted = << >>
    /\ submitted = << >>
    /\ scored = << >>
    /\ scheduled = 0
    /\ call = Call("new", NULL, << >>, << >>)
    /\ pending = 0
    /\ scoresTable = << >>
    /\ request = Body(Undefined, Undefined, Undefined)
    /\ currentIndices = [key \in DIFFICULTIES |-> 0]
    /\ served = [key \in DIFFICULTIES |-> << >>]
    /\ returned = Returned("undefined", NULL)

\* the session of the game, with the pools as one construction leaves them
Init ==
    /\ InitSession
    /\ words = shippedWords
    /\ pools = words
    /\ supabase = TRUE

\* the backend, started with or without its Supabase environment
BackendInit ==
    /\ InitSession
    /\ words = shippedWords
    /\ pools = words
    /\ supabase \in BOOLEAN

\* every dataset and every outcome of the constructor's shuffles
WordGeneratorInit ==
    /\ InitSession
    /\ words \in Datasets
    /\ supabase = TRUE
    /\ pools \in [easy : shuffleArray(words.easy),
                  moderate : shuffleArray(words.moderate),
                  hard : shuffleArray(words.hard)]

-----------------------------------------------------------------------------
(* Calls on the TypingEngine singleton, in any order *)

AddTarget(id, word) ==
    /\ id \notin DOMAIN targets
    /\ Commit(addTarget(State, id, word), Call("addTarget", id, << >>, word))

RemoveTarget(id) ==
    /\ id \in Ids
    /\ Commit(removeTarget(State, id), Call("removeTarget", id, << >>, << >>))

ProcessKey(key) ==
    /\ key \in Keys
    /\ Commit(processKey(State, key), Call("processKey", NULL, key, << >>))

Backspace ==
    /\ TRUE
    /\ Commit(backspace(State), Call("backspace", NULL, << >>, << >>))

ResetState ==
    /\ TRUE
    /\ Commit(resetState(State), Call("resetState", NULL, << >>, << >>))

EngineNext ==
    \/ \E id \in Ids, word \in WordPool : AddTarget(id, word)
    \/ \E id \in Ids : RemoveTarget(id)
    \/ \E key \in Keys : ProcessKey(key)
    \/ Backspace
    \/ ResetState

EngineSpec == Init /\ [][EngineNext]_vars

-----------------------------------------------------------------------------
(* Words typed from their first letter to their last, between changes of    *)
(* the target set                                                            *)

TypeLetters(id) ==
    /\ id \in DOMAIN targets
    /\ buffer = << >>
    /\ Commit(typeLetters(State, targets[id].word),
              Call("typeLetters", id, << >>, targets[id].word))

TypingNext ==
    \/ \E id \in Ids, word \in WordPool : AddTarget(id, word)
    \/ \E id \in Ids : RemoveTarget(id)
    \/ \E id \in Ids : TypeLetters(id)

TypingSpec == Init /\ [][TypingNext]_vars

-----------------------------------------------------------------------------
(* The game: UI buttons, key events, animation frames *)

StartGame ==
    /\ TRUE
    /\ Commit(startGame(State), Call("startGame", NULL, << >>, << >>))

CleanupGame ==
    /\ TRUE
    /\ Commit(cleanupGame(State), Call("cleanupGame", NULL, << >>, << >>))

ResetGame ==
    /\ TRUE
    /\ Commit(resetGame(State), Call("resetGame", NULL, << >>, << >>))

ResumeGame ==
    /\ TRUE
    /\ Commit(resumeGame(State), Call("resumeGame", NULL, << >>, << >>))

HandleInput(key) ==
    /\ key \in EventKeys
    /\ Commit(handleInput(State, key), Call("handleInput", NULL, key, << >>))

HiddenInputKeydown(key) ==
    /\ key \in EventKeys
    /\ inputFocused
    /\ Commit(hiddenInputKeydown(State, key), Call("hiddenInputKeydown", NULL, key, << >>))

\* the frame of gameLoop that comes once the spawn interval is over
GameLoopSpawn(id, word) ==
    /\ id \notin DOMAIN entities
    /\ id \notin DOMAIN targets
    /\ Commit(gameLoop(waitForSpawn(State), id, word), Call("gameLoop", id, << >>, word))

AsteroidTick(id, reached, earthDestroyed) ==
    /\ ~gamePaused
    /\ id \in DOMAIN entities
    /\ entities[id].attached
    /\ reached = "shield" => ~earthDestroyed
    /\ Commit(asteroidTick(State, id, reached, earthDestroyed),
              Call("asteroidTick", id, << >>, << >>))

ProjectileTick(id, hit) ==
    /\ ~gamePaused
    /\ id \in projectiles
    /\ Commit(projectileTick(State, id, hit), Call("projectileTick", id, << >>, << >>))

\* The tick of an asteroid and, when it ends the game, the settling of the
\* score submission before any other event.  What the settling changes is
\* read by no handler of the game, so the sessions in which it comes later
\* differ from these in the count of pending submissions only; ClockSpec
\* has them.
AsteroidTickSubmitting(id, reached, earthDestroyed) ==
    /\ ~gamePaused
    /\ id \in DOMAIN entities /\ entities[id].attached
    /\ reached = "shield" => ~earthDestroyed
    /\ LET s == asteroidTick(State, id, reached, earthDestroyed)
       IN IF s.pending > pending
          THEN \E outcome \in submitScoreOutcomes :
                  Commit([stopGameResumes(s, outcome) EXCEPT !.returned = s.returned],
                         Call("asteroidTick", id, << >>, << >>))
          ELSE Commit(s, Call("asteroidTick", id, << >>, << >>))

\* the promise a stopGame awaits settles and that stopGame runs to its end
SubmitScoreSettles(outcome) ==
    /\ pending > 0
    /\ Commit(stopGameResumes(State, outcome),
              Call("stopGameResumes", NULL, << >>, << >>))

Next ==
    \/ StartGame
    \/ CleanupGame
    \/ ResetGame
    \/ ResumeGame
    \/ \E key \in EventKeys : HandleInput(key)
    \/ \E key \in EventKeys : HiddenInputKeydown(key)
    \/ \E id \in AsteroidIds, word \in GameWords : GameLoopSpawn(id, word)
    \/ \E id \in AsteroidIds, reached \in {"shield", "earth", "passed"}, d \in BOOLEAN :
          AsteroidTickSubmitting(id, reached, d)
    \/ \E id \in AsteroidIds, hit \in BOOLEAN : ProjectileTick(id, hit)

Spec == Init /\ [][Next]_vars

-----------------------------------------------------------------------------
(* Calls on the ScoreManager singleton, in any order *)

Reset ==
    /\ TRUE
    /\ Assign(ScoreManager_reset(State), Call("reset", NULL, << >>, << >>))

HandleWordComplete(word, tier) ==
    /\ wordsTyped < MaxLedgerWords
    /\ Assign(handleWordComplete(State, word, tier),
              Call("handleWordComplete", NULL, << >>, word))

HandleMistake ==
    /\ mistakes < MaxMistakes
    /\ Assign(handleMistake(State), Call("handleMistake", NULL, << >>, << >>))

LedgerNext ==
    \/ Reset
    \/ \E word \in LedgerWords, tier \in Tiers : HandleWordComplete(word, tier)
    \/ HandleMistake

LedgerSpec == Init /\ [][LedgerNext]_vars

(* Long streaks: the same calls with one word and one tier *)
StreakWordComplete ==
    /\ wordsTyped < MaxStreak
    /\ Assign(handleWordComplete(State, <<"a">>, "easy"),
              Call("handleWordComplete", NULL, << >>, <<"a">>))

StreakNext ==
    \/ Reset
    \/ StreakWordComplete
    \/ HandleMistake

StreakSpec == Init /\ [][StreakNext]_vars

-----------------------------------------------------------------------------
(* Calls on the DifficultyManager singleton, in any order *)

OnWordTyped ==
    /\ dmWordsTyped < MaxDifficultyWords
    /\ Assign(onWordTyped(State), Call("onWordTyped", NULL, << >>, << >>))

DifficultyReset ==
    /\ TRUE
    /\ Assign(DifficultyManager_reset(State),
              Call("DifficultyManager.reset", NULL, << >>, << >>))

GetSpawnInterval ==
    /\ TRUE
    /\ Assign([State EXCEPT !.returned = Returned("number", getSpawnInterval(State))],
              Call("getSpawnInterval", NULL, << >>, << >>))

GetEnemySpeed ==
    /\ TRUE
    /\ Assign([State EXCEPT !.returned = Returned("number", getEnemySpeed(State))],
              Call("getEnemySpeed", NULL, << >>, << >>))

DifficultyNext ==
    \/ OnWordTyped
    \/ DifficultyReset
    \/ GetSpawnInterval
    \/ GetEnemySpeed

DifficultySpec == Init /\ [][DifficultyNext]_vars

-----------------------------------------------------------------------------
(* Calls of getWord on one WordGenerator, for any tier name in any order *)

GetWord(difficulty) ==
    LET key == IF difficulty \in DIFFICULTIES THEN difficulty ELSE "easy"
    IN \E shuffled \in shuffleArray(pools[key]), picked \in pickRandom(fallbacks) :
          Assign(getWord(State, difficulty, shuffled, picked),
                 Call("getWord", NULL, <<difficulty>>, << >>))

WordGeneratorNext == \E difficulty \in Tiers : GetWord(difficulty)

WordGeneratorSpec == WordGeneratorInit /\ [][WordGeneratorNext]_vars

-----------------------------------------------------------------------------
(* Sessions whose words come from the pools of WordGenerator: frames that   *)
(* spawn, words typed to their end, projectiles and asteroids arriving      *)

\* what shuffleArray can return in a getWord call for the tier: it is
\* called only when the served word was the last of the pool
shufflesDrawn(key) ==
    IF Len(pools[key]) > 0 /\ (currentIndices[key] + 1) % Len(pools[key]) = 0
    THEN shuffleArray(pools[key]) ELSE {pools[key]}

\* what pickRandom can select in a getWord call for the tier: it is called
\* only when the pool is empty
picksDrawn(key) ==
    IF Len(pools[key]) = 0 THEN pickRandom(fallbacks) ELSE {Returned("undefined", NULL)}

SpawnDrawn(id) ==
    /\ id \notin DOMAIN entities
    /\ id \notin DOMAIN targets
    /\ \E shuffled \in shufflesDrawn(getWordDifficulty(State)),
          picked \in picksDrawn(getWordDifficulty(State)) :
          Assign(gameLoopDrawing(waitForSpawn(State), id, shuffled, picked),
                 Call("gameLoop", id, << >>, << >>))

SpawnAlone(id) ==
    /\ DOMAIN entities = {}
    /\ SpawnDrawn(id)

TypeWord(id, max) ==
    /\ state = "PLAYING"
    /\ wordsTyped < max
    /\ buffer = << >>
    /\ id \in DOMAIN targets
    /\ \A other \in DOMAIN targets \ {id} : targets[other].word # targets[id].word
    /\ Assign(typeWord(State, id),
              Call("processKey", id, <<targets[id].word[Len(targets[id].word)]>>, << >>))

ProjectileArrives(id, hit) ==
    /\ ~gamePaused
    /\ id \in projectiles
    /\ Assign(projectileTick(State, id, hit), Call("projectileTick", id, << >>, << >>))

AsteroidArrives(id, reached) ==
    /\ ~gamePaused
    /\ id \in DOMAIN entities
    /\ entities[id].attached
    /\ Assign(asteroidTick(State, id, reached, FALSE),
              Call("asteroidTick", id, << >>, << >>))

SpawnNext ==
    \/ StartGame
    \/ \E id \in AsteroidIds : SpawnAlone(id)
    \/ \E id \in AsteroidIds : TypeWord(id, MaxSpawnWords)
    \/ \E id \in AsteroidIds, hit \in BOOLEAN : ProjectileArrives(id, hit)
    \/ \E id \in AsteroidIds, reached \in {"shield", "passed"} :
          AsteroidArrives(id, reached)

SpawnSpec == Init /\ [][SpawnNext]_vars

\* a spawn beside an asteroid still on screen: the player keeps up with the
\* spawns for the first CrowdedFrom words
SpawnBeside(id) ==
    /\ DOMAIN entities # {}
    /\ wordsTyped >= CrowdedFrom
    /\ SpawnDrawn(id)

\* the same sessions with as many asteroids on screen as there are ids
TierNext ==
    \/ StartGame
    \/ \E id \in AsteroidIds : SpawnAlone(id)
    \/ \E id \in AsteroidIds : SpawnBeside(id)
    \/ \E id \in AsteroidIds : TypeWord(id, MaxTierWords)
    \/ \E id \in AsteroidIds : ProjectileArrives(id, TRUE)
    \/ \E id \in AsteroidIds : AsteroidArrives(id, "shield")

TierSpec == Init /\ [][TierNext]_vars

-----------------------------------------------------------------------------
(* Sessions that end: the scene's 'earth-destroyed' event reaches its        *)
(* listener in any state of the game, as often as it is dispatched           *)

EarthDestroyed ==
    /\ TRUE
    /\ Commit(stopGame(State), Call("stopGame", NULL, << >>, << >>))

\* the keys that score and pause
PlayedKeys == {<<"a">>, <<"b">>, KeyEscape}

GameOverNext ==
    \/ StartGame
    \/ CleanupGame
    \/ \E key \in PlayedKeys : HandleInput(key)
    \/ \E id \in AsteroidIds, word \in GameWords : GameLoopSpawn(id, word)
    \/ \E id \in AsteroidIds, reached \in {"shield", "earth", "passed"}, d \in BOOLEAN :
          AsteroidTick(id, reached, d)
    \/ \E id \in AsteroidIds, hit \in BOOLEAN : ProjectileTick(id, hit)
    \/ EarthDestroyed
    \/ \E outcome \in submitScoreOutcomes : SubmitScoreSettles(outcome)

GameOverSpec == Init /\ [][GameOverNext]_vars

-----------------------------------------------------------------------------
(* Requests to POST /api/scores *)

CreateScore(body, dbError) ==
    LET s == createScore(State, body, dbError)
    IN /\ Len(s.scoresTable) <= MaxRows
       /\ Assign(s, Call("createScore", NULL, << >>, << >>))

BackendNext ==
    \E player_name \in NameValues, sc \in ScoreValues, accuracy \in AccuracyValues,
       dbError \in BOOLEAN :
        CreateScore(Body(player_name, sc, accuracy), dbError)

BackendSpec == BackendInit /\ [][BackendNext]_vars

-----------------------------------------------------------------------------
(* The spawn clock: the session, the clock and the frames of gameLoop *)

TimePasses ==
    /\ TRUE
    /\ Commit(timePasses(State, TimeStep), Call("timePasses", NULL, << >>, << >>))

\* any frame requestAnimationFrame gives to gameLoop
GameLoopFrame(id, word) ==
    /\ id \notin DOMAIN entities
    /\ id \notin DOMAIN targets
    /\ Commit(gameLoop(State, id, word), Call("gameLoop", id, << >>, word))

ClockNext ==
    \/ StartGame
    \/ CleanupGame
    \/ ResumeGame
    \/ HandleInput(KeyEscape)
    \/ TimePasses
    \/ \E id \in AsteroidIds, word \in GameWords : GameLoopFrame(id, word)
    \/ \E id \in AsteroidIds, reached \in {"shield", "earth", "passed"}, d \in BOOLEAN :
          AsteroidTick(id, reached, d)
    \/ \E outcome \in submitScoreOutcomes : SubmitScoreSettles(outcome)

ClockSpec == Init /\ [][ClockNext]_vars

-----------------------------------------------------------------------------
(* The animation frames: the calls that ask for a frame of gameLoop and the  *)
(* frames the browser gives                                                  *)

Schedule(s, c) ==
    /\ s.scheduled <= MaxScheduled
    /\ Commit(s, c)

StartGameScheduling ==
    /\ TRUE
    /\ Schedule(startGameScheduling(State), Call("startGame", NULL, << >>, << >>))

PauseGame ==
    /\ TRUE
    /\ Commit(pauseGame(State), Call("pauseGame", NULL, << >>, << >>))

ResumeGameScheduling ==
    /\ TRUE
    /\ Schedule(resumeGameScheduling(State), Call("resumeGame", NULL, << >>, << >>))

ResetGameScheduling ==
    /\ TRUE
    /\ Schedule(resetGameScheduling(State), Call("resetGame", NULL, << >>, << >>))

AnimationFrame(id, word) ==
    /\ scheduled > 0
    /\ id \notin DOMAIN entities
    /\ id \notin DOMAIN targets
    /\ Schedule(animationFrame(State, id, word), Call("animationFrame", id, << >>, word))

FrameNext ==
    \/ StartGameScheduling
    \/ PauseGame
    \/ ResumeGameScheduling
    \/ EarthDestroyed
    \/ CleanupGame
    \/ ResetGameScheduling
    \/ TimePasses
    \/ \E id \in AsteroidIds, word \in GameWords : AnimationFrame(id, word)
    \/ \E outcome \in submitScoreOutcomes : SubmitScoreSettles(outcome)

FrameSpec == Init /\ [][FrameNext]_vars

-----------------------------------------------------------------------------
(* Vocabulary of the properties *)

Names(evs) == [i \in 1..Len(evs) |-> evs[i].name]

Emitted(evs, name) == \E i \in 1..Len(evs) : evs[i].name = name

CountOf(evs, name) == Cardinality({i \in 1..Len(evs) : evs[i].name = name})

\* exactly one alphabetic character
IsLetterKey(key) == Len(key) = 1 /\ key[1] \in LowerAZ \cup UpperAZ

\* the buffer a letter key produces, and the live targets it still matches
NewBuffer(key) == Append(buffer, toLowerCaseChar(key[1]))

Matching(buf) == {id \in DOMAIN targets : startsWith(targets[id].word, buf)}

\* the step is a processKey call with a letter
LetterStep == call'.op = "processKey" /\ IsLetterKey(call'.key)

-----------------------------------------------------------------------------
(* C1: whenever currentTargetId is non-null, buffer is a prefix of the     *)
(* word of the live target with that id.                                    *)
C1_PrefixInvariant ==
    currentTargetId # NULL =>
        /\ currentTargetId \in DOMAIN targets
        /\ startsWith(targets[currentTargetId].word, buffer)

(* C2: currentTargetId is always null or the id of a live target; a       *)
(* removeTarget(id) on the locked id returns with buffer and lock cleared   *)
(* and onReset emitted, and every removeTarget(id) returns with id absent   *)
(* from the map, the calls asteroid-component.destroy makes from inside an  *)
(* onComplete listener included.                                            *)
C2_LockIsLive ==
    /\ currentTargetId = NULL \/ currentTargetId \in DOMAIN targets
    /\ \A i \in 1..Len(removed) :
          /\ ~removed[i].present
          /\ removed[i].id \notin DOMAIN targets
          /\ removed[i].wasLocked =>
                /\ removed[i].lock = NULL
                /\ removed[i].buf = << >>
                /\ removed[i].signals = <<"onReset">>
          /\ ~removed[i].wasLocked => removed[i].signals = << >>

\* destroy, called by the onComplete listener, removes the locked target
\* before processKey removes it again, while another target stays live
C2_Witness ==
    /\ call.op = "handleInput"
    /\ Emitted(events, "onComplete")
    /\ Len(removed) = 2
    /\ removed[1].wasLocked
    /\ removed[2].id = removed[1].id
    /\ DOMAIN targets # {}

(* C3: a letter after which no live target's word starts with the new      *)
(* buffer emits onMistake(lower-cased letter) once and then onReset and     *)
(* nothing else, empties the buffer, clears the lock and leaves the target  *)
(* set as it was.                                                           *)
C3_MistakeResetsFully ==
    [][(LetterStep /\ Matching(NewBuffer(call'.key)) = {}) =>
        /\ Names(events') = <<"onMistake", "onReset">>
        /\ events'[1].char = toLowerCaseChar(call'.key[1])
        /\ buffer' = << >>
        /\ currentTargetId' = NULL
        /\ targets' = targets]_vars

\* a mistake on a buffer that matched a live target before the letter
C3_Witness ==
    /\ call.op = "processKey"
    /\ Names(events) = <<"onMistake", "onReset">>
    /\ Len(events[1].buf) >= 2
    /\ \E id \in DOMAIN targets :
          startsWith(targets[id].word, sliceDropLast(events[1].buf))

(* C4: a letter after which exactly one live target's word starts with the *)
(* new buffer locks that target and emits onLock(id), then                  *)
(* onProgress(id, length of buffer, letter); onComplete(id, word as         *)
(* registered) follows onProgress exactly when the buffer has the length    *)
(* of the word.                                                             *)
C4_SingleCandidateLocks ==
    [][(LetterStep /\ Cardinality(Matching(NewBuffer(call'.key))) = 1) =>
        LET nb == NewBuffer(call'.key)
            id == CHOOSE i \in Matching(nb) : TRUE
            full == Len(nb) = Len(targets[id].word)
        IN /\ Len(events') >= 2
           /\ events'[1].name = "onLock" /\ events'[1].id = id
           /\ events'[1].lock = id
           /\ events'[2].name = "onProgress" /\ events'[2].id = id
           /\ events'[2].index = Len(nb)
           /\ events'[2].char = toLowerCaseChar(call'.key[1])
           /\ CountOf(events', "onLock") = 1
           /\ CountOf(events', "onProgress") = 1
           /\ full <=> Emitted(events', "onComplete")
           /\ full => /\ events'[3].name = "onComplete"
                      /\ events'[3].id = id
                      /\ events'[3].word = targets[id].originalWord
                      /\ CountOf(events', "onComplete") = 1
           /\ ~full => Len(events') = 2 /\ currentTargetId' = id]_vars

\* a capitalised word completed by its last letter
C4_Witness ==
    /\ call.op = "processKey"
    /\ Len(events) >= 3
    /\ Names(SubSeq(events, 1, 3)) = <<"onLock", "onProgress", "onComplete">>
    /\ events[3].word = <<"A", "b">>
    /\ events[2].index = 2

(* C5: a processKey call that leaves two or more live targets whose word    *)
(* starts with the buffer leaves currentTargetId null and emits exactly     *)
(* onCandidates(ids of those targets, buffer).                              *)
C5_AmbiguousLeavesLockNull ==
    [][(LetterStep /\ Cardinality(Matching(NewBuffer(call'.key))) >= 2) =>
        /\ currentTargetId' = NULL
        /\ Names(events') = <<"onCandidates">>
        /\ events'[1].ids = Matching(NewBuffer(call'.key))
        /\ events'[1].word = NewBuffer(call'.key)
        /\ buffer' = NewBuffer(call'.key)]_vars

(* C6: when a processKey or backspace call that emitted onComplete(id, _)   *)
(* has returned, id is not a live target, the buffer is empty, nothing is   *)
(* locked, and id is the only target the call removed.                      *)
C6_CompletionClearsTarget ==
    [][(call'.op \in {"processKey", "backspace"} /\ Emitted(events', "onComplete")) =>
        \A i \in 1..Len(events') : events'[i].name = "onComplete" =>
            /\ events'[i].id \notin DOMAIN targets'
            /\ buffer' = << >>
            /\ currentTargetId' = NULL
            /\ DOMAIN targets' = DOMAIN targets \ {events'[i].id}
            /\ \A j \in DOMAIN targets' : targets'[j] = targets[j]]_vars

\* a completion reached by backspace while other targets stay live
C6_Witness ==
    /\ call.op = "backspace"
    /\ Emitted(events, "onComplete")
    /\ DOMAIN targets # {}

(* C7: backspace never emits onMistake; when the shortened buffer matches   *)
(* no live target it resets buffer and lock and emits onReset only.         *)
C7_BackspaceNeverMistake ==
    [][call'.op = "backspace" =>
        /\ ~Emitted(events', "onMistake")
        /\ (buffer # << >> /\ Matching(sliceDropLast(buffer)) = {}) =>
              /\ Names(events') = <<"onReset">>
              /\ buffer' = << >>
              /\ currentTargetId' = NULL]_vars

\* a backspace whose shortened buffer matched nothing
C7_Witness ==
    /\ call.op = "backspace"
    /\ Names(events) = <<"onReset">>

(* C8: processKey with anything that is not exactly one alphabetic          *)
(* character changes neither buffer, lock, index nor the target set and     *)
(* emits no signal.                                                         *)
C8_InvalidKeyIgnored ==
    [][(call'.op = "processKey" /\ ~IsLetterKey(call'.key)) =>
        /\ UNCHANGED <<targets, currentTargetId, currentIndex, buffer>>
        /\ events' = << >>]_vars

\* a digit typed while a target is locked on a non-empty buffer
C8_Witness ==
    /\ call.op = "processKey"
    /\ call.key = <<"1">>
    /\ buffer # << >>
    /\ currentTargetId # NULL

(* C9: a step of play in which onComplete(id, word) is emitted applies     *)
(* ScoreManager.handleWordComplete(word, tier of the current level) and     *)
(* DifficultyManager.onWordTyped() exactly once each, in the same step that *)
(* clears the typing state.                                                 *)
C9_CompletionScoresAtOnce ==
    [][(state = "PLAYING" /\ Emitted(events', "onComplete")) =>
        \A i \in 1..Len(events') : events'[i].name = "onComplete" =>
            /\ Cardinality({k \in 1..Len(invoked') :
                   invoked'[k] = Invocation("handleWordComplete", events'[i].word,
                                            getWordDifficulty(State))}) = 1
            /\ Cardinality({k \in 1..Len(invoked') :
                   invoked'[k].fn = "onWordTyped"}) = 1
            /\ wordsTyped' = wordsTyped + 1
            /\ dmWordsTyped' = dmWordsTyped + 1
            /\ buffer' = << >> /\ currentTargetId' = NULL]_vars

(* C10: a step in which onMistake is emitted applies                        *)
(* ScoreManager.handleMistake exactly once: mistakes grows by one, streak   *)
(* is 0 and multiplier is 1 afterwards.                                     *)
C10_MistakeIsCounted ==
    [][Emitted(events', "onMistake") =>
        /\ Cardinality({k \in 1..Len(invoked') :
               invoked'[k].fn = "handleMistake"}) = CountOf(events', "onMistake")
        /\ mistakes' = mistakes + 1
        /\ streak' = 0
        /\ multiplier' = 1]_vars

(* C11: an asteroid tick that removes the asteroid because it reached the   *)
(* shield or the Earth, or passed the Earth, calls                          *)
(* TypingEngine.removeTarget for its id and leaves score, streak,           *)
(* multiplier, mistakes, wordsTyped, charsTyped and the difficulty level    *)
(* and counter unchanged.                                                   *)
C11_UntypedRemovalScoresNothing ==
    [][call'.op = "asteroidTick" =>
        /\ \E i \in 1..Len(removed') : removed'[i].id = call'.id
        /\ invoked' = << >>
        /\ UNCHANGED <<scoreVars, difficultyVars>>]_vars

\* a half-typed asteroid reaches the shield after a word has been scored
C11_Witness ==
    /\ call.op = "asteroidTick"
    /\ \E i \in 1..Len(removed) : removed[i].id = call.id /\ removed[i].wasLocked
    /\ score > 0
    /\ state = "PLAYING"

(* C12: right after a startGame or resetGame call that enters PLAYING,      *)
(* ScoreManager has score 0, streak 0, multiplier 1, wordsTyped 0,          *)
(* charsTyped 0 and mistakes 0, DifficultyManager has level 1 and counter   *)
(* 0, and TypingEngine has an empty buffer, no lock and no live targets.    *)
C12_StartResetsEverything ==
    [][(/\ call'.op \in {"startGame", "resetGame"}
        /\ state' = "PLAYING"
        /\ state # "PLAYING" \/ call'.op = "resetGame") =>
        /\ score' = 0 /\ streak' = 0 /\ multiplier' = 1
        /\ wordsTyped' = 0 /\ charsTyped' = 0 /\ mistakes' = 0
        /\ level' = 1 /\ dmWordsTyped' = 0
        /\ buffer' = << >> /\ currentTargetId' = NULL
        /\ DOMAIN targets' = {}]_vars

(* C13: while the session is PAUSED no keystroke reaches TypingEngine: a   *)
(* keydown, and the resumeGame that ends the pause, leave buffer, lock and  *)
(* live targets and the score, streak, multiplier and counters of           *)
(* ScoreManager as they were when the pause began.                          *)
C13_PausePreservesTyping ==
    [][(/\ state = "PAUSED"
        /\ call'.op \in {"handleInput", "hiddenInputKeydown", "resumeGame"}) =>
        UNCHANGED <<engineVars, scoreVars>>]_vars

(* C14: whenever the session state is GAMEOVER, TypingEngine has no live   *)
(* target and no lock.                                                      *)
C14_GameOverHasNoTargets ==
    state = "GAMEOVER" => (DOMAIN targets = {} /\ currentTargetId = NULL)

\* the Earth is destroyed while one asteroid is locked and another is live
C14_Witness ==
    /\ state = "GAMEOVER"
    /\ call.op = "asteroidTick"
    /\ Len(removed) >= 2
    /\ \E i \in 1..Len(removed) : removed[i].wasLocked
    /\ \E i \in 1..Len(removed) : ~removed[i].wasLocked /\ removed[i].id # call.id

\* the transitions of the session state the specification lists
ListedTransitions ==
    {<<"MENU", "PLAYING">>, <<"PLAYING", "PAUSED">>, <<"PAUSED", "PLAYING">>,
     <<"PLAYING", "GAMEOVER">>, <<"GAMEOVER", "MENU">>, <<"GAMEOVER", "PLAYING">>}

C16_SpawnOnlyWhilePlaying ==
    [][DOMAIN targets' \ DOMAIN targets # {} =>
        /\ call'.op = "gameLoop"
        /\ state = "PLAYING" /\ state' = "PLAYING"
        /\ DOMAIN targets' \ DOMAIN targets = {call'.id}
        /\ DOMAIN targets \subseteq DOMAIN targets']_vars

\* a frame has added a second target to a running session
C16_Witness ==
    /\ call.op = "gameLoop"
    /\ state = "PLAYING"
    /\ call.id \in DOMAIN targets
    /\ Cardinality(DOMAIN targets) = 2

(* C17: time spent in PAUSED does not count toward the spawn interval: a   *)
(* frame of gameLoop spawns only when the time spent in PLAYING since the   *)
(* last spawn (or the start) has reached the spawn interval.                *)
C17_PauseSuspendsSpawnClock ==
    [][(call'.op = "gameLoop" /\ call'.id \in DOMAIN targets') =>
        played >= getSpawnInterval(State)]_vars

\* the step is a call of ScoreManager.handleWordComplete(word, tier)
WordCompleteStep == call'.op = "handleWordComplete" /\ Len(invoked') = 1

\* floor(len(word) x 10 x t x m), t being 1, 1.5 or 2: the tenfold length
\* times 2t is even whenever t is 1 or 2, and a multiple of 30 for 1.5
PointsFor(word, tier, m) ==
    CASE tier = "hard" -> Len(word) * 10 * 2 * m
      [] tier = "moderate" -> Len(word) * 15 * m
      [] OTHER -> Len(word) * 10 * m

(* C18: handleWordComplete never decreases score; handleMistake leaves      *)
(* score, wordsTyped and charsTyped unchanged, adds 1 to mistakes and sets  *)
(* streak to 0 and multiplier to 1 whatever the streak was.                 *)
C18_ScoreMonotone ==
    [][/\ call'.op = "handleWordComplete" => score' >= score
       /\ call'.op = "handleMistake" =>
             /\ UNCHANGED <<score, wordsTyped, charsTyped>>
             /\ mistakes' = mistakes + 1
             /\ streak' = 0
             /\ multiplier' = 1]_vars

\* a mistake has ended a streak that had raised the multiplier
C18_Witness ==
    /\ call.op = "handleMistake"
    /\ wordsTyped >= 5
    /\ score >= PointsFor(<<"a">>, "easy", 1) * 5
    /\ streak = 0 /\ multiplier = 1 /\ mistakes = 1

\* min(5, 1 + floor(streak / 5))
MultiplierOf(n) == IF 1 + (n \div 5) > 5 THEN 5 ELSE 1 + (n \div 5)

(* C19: in every state reached through reset, handleWordComplete and        *)
(* handleMistake, multiplier = min(5, 1 + floor(streak / 5)): an integer in *)
(* 1..5 that is 2 when the streak is 5 and never more than 5.               *)
C19_MultiplierStepFunction ==
    /\ multiplier = MultiplierOf(streak)
    /\ multiplier \in 1..5
    /\ streak < 5 => multiplier = 1
    /\ streak = 5 => multiplier = 2

\* a streak long enough for 1 + floor(streak / 5) to be more than 5
C19_Witness ==
    /\ call.op = "handleWordComplete"
    /\ 1 + (streak \div 5) > 5
    /\ multiplier = 5

-----------------------------------------------------------------------------
(* C21: after any sequence of DifficultyManager.onWordTyped and reset      *)
(* calls, level = 1 + floor(wordsTyped / wordsPerLevel); onWordTyped        *)
(* returns true exactly on the calls that make wordsTyped a multiple of     *)
(* wordsPerLevel and false on all others; reset restores level 1 and        *)
(* counter 0.                                                               *)
C21_LevelFollowsCounter ==
    /\ level = 1 + dmWordsTyped \div wordsPerLevel
    /\ call.op = "onWordTyped" =>
          /\ returned.type = "boolean"
          /\ returned.value = (dmWordsTyped % wordsPerLevel = 0)
    /\ call.op = "DifficultyManager.reset" => level = 1 /\ dmWordsTyped = 0

\* the tenth word since the last reset levels up to 3, after a reset
C21_Witness ==
    /\ call.op = "onWordTyped"
    /\ dmWordsTyped = 2 * wordsPerLevel
    /\ returned.value = TRUE
    /\ level = 3

(* C22: for every level >= 1, getSpawnInterval() equals                    *)
(* max(minSpawnInterval, baseSpawnInterval - (level-1) x intervalDecrement) *)
(* and getEnemySpeed() equals baseEnemySpeed + (level-1) x speedIncrement;  *)
(* as the level grows, the spawn interval never increases and never drops   *)
(* below minSpawnInterval, and the enemy speed never decreases.              *)
AtLevel(l) == [State EXCEPT !.level = l]

C22_DifficultyCurves ==
    LET linear == baseSpawnInterval - (level - 1) * intervalDecrement
    IN /\ level >= 1
       /\ call.op = "getSpawnInterval" =>
             /\ returned.value >= linear
             /\ returned.value >= minSpawnInterval
             /\ returned.value \in {linear, minSpawnInterval}
       /\ call.op = "getEnemySpeed" =>
             returned.value = baseEnemySpeedTenths + (level - 1) * speedIncrementTenths
       /\ \A l \in 1..level :
             /\ getSpawnInterval(AtLevel(l)) >= getSpawnInterval(State)
             /\ getSpawnInterval(State) >= minSpawnInterval
             /\ getEnemySpeed(AtLevel(l)) <= getEnemySpeed(State)

\* a level at which the linear interval is below the minimum
C22_Witness ==
    /\ call.op = "getSpawnInterval"
    /\ baseSpawnInterval - (level - 1) * intervalDecrement < minSpawnInterval
    /\ returned.value = minSpawnInterval

(* C23: for each tier whose pool holds n > 1 words, the getWord calls      *)
(* served from that tier's pool numbered k x n + 1 to (k+1) x n, however    *)
(* they interleave with calls for other tiers, return every word of the     *)
(* pool exactly once: within one pass no word is skipped or served twice,   *)
(* whatever the shuffles.                                                    *)
ListOf(key) == words[key]
WordsOf(list) == {list[i] : i \in 1..Len(list)}

C23_PassServesEachWordOnce ==
    \A key \in DIFFICULTIES :
        LET n == Len(ListOf(key))
            pass == served[key]
        IN n > 1 =>
             /\ Len(pass) <= n
             /\ WordsOf(pass) \subseteq WordsOf(ListOf(key))
             /\ \A i, j \in 1..Len(pass) : pass[i] = pass[j] => i = j
             /\ Len(pass) = (IF currentIndices[key] = 0 /\ pass # << >>
                             THEN n ELSE currentIndices[key])

\* a pass of the easy pool completed while a pass of the moderate pool is
\* under way, the easy pool reshuffled into another order
C23_Witness ==
    /\ call.op = "getWord"
    /\ Len(ListOf("easy")) > 1
    /\ Len(served.easy) = Len(ListOf("easy"))
    /\ WordsOf(served.easy) = WordsOf(ListOf("easy"))
    /\ pools.easy # served.easy
    /\ Len(served.moderate) = 1

(* C24: WordGenerator.getWord never returns an empty or falsy value: for a  *)
(* tier whose pool is empty it returns one of the fixed fallback words      *)
(* (word, type, game, play, test), and for an unrecognised tier name it     *)
(* serves from the easy pool (key below is the pool getWord resolves the    *)
(* requested name to).                                                       *)
RequestedOf(c) == c.key[1]

C24_GetWordAlwaysGivesAWord ==
    call.op = "getWord" =>
        LET difficulty == RequestedOf(call)
            key == IF difficulty \in DIFFICULTIES THEN difficulty ELSE "easy"
        IN /\ returned.type = "string"
           /\ returned.value # << >>
           /\ ListOf(key) = << >> => returned.value \in WordsOf(fallbacks)
           /\ ListOf(key) # << >> =>
                 /\ returned.value \in WordsOf(ListOf(key))
                 /\ returned.value = served[key][Len(served[key])]

\* the hard tier has no words and getWord("hard") answers "test"
C24_Witness ==
    /\ call.op = "getWord"
    /\ RequestedOf(call) = "hard"
    /\ ListOf("hard") = << >>
    /\ returned.value = <<"t", "e", "s", "t">>

(* C25: stopGame enters GAMEOVER and delivers game-over before the score   *)
(* submission settles; a rejected or failed submitScore raises no error    *)
(* out of stopGame and changes neither the session state nor any score,     *)
(* difficulty or resolver state, and a restart or a return to the menu      *)
(* proceeds while a submission is still pending.                             *)
C25_SubmissionStaysOutside ==
    [][/\ pending' > pending =>
            /\ state # "GAMEOVER" /\ state' = "GAMEOVER"
            /\ gamePaused' /\ ~inputFocused'
       /\ call'.op = "stopGameResumes" =>
            /\ pending' = pending - 1
            /\ returned'.type = "fulfilled"
            /\ UNCHANGED <<engineVars, scoreVars, difficultyVars, sceneVars,
                           clockVars>>
       /\ (pending > 0 /\ call'.op = "startGame") =>
            state' = "PLAYING" /\ pending' = pending
       /\ (pending > 0 /\ call'.op = "cleanupGame") =>
            state' = "MENU" /\ pending' = pending]_vars

\* a submission settles after the game was started again
C25_Witness ==
    /\ call.op = "stopGameResumes"
    /\ state = "PLAYING"
    /\ pending = 0

(* C26: addTarget(id, word, ref) with an empty word leaves the live target  *)
(* set unchanged; otherwise the target is stored under id with its word     *)
(* lower-cased, so that keys match regardless of the case of the key or of  *)
(* the registered word, while onComplete reports the word in the case in    *)
(* which it was registered.                                                  *)
LowerKey(key) == <<toLowerCaseChar(key[1])>>

C26_AddTargetLowerCases ==
    [][/\ call'.op = "addTarget" =>
            IF call'.word = << >> THEN targets' = targets
            ELSE /\ DOMAIN targets' = DOMAIN targets \cup {call'.id}
                 /\ targets'[call'.id].word = toLowerCase(call'.word)
                 /\ targets'[call'.id].originalWord = call'.word
                 /\ \A i \in DOMAIN targets \ {call'.id} : targets'[i] = targets[i]
       /\ LetterStep =>
            LET lower == processKey(State, LowerKey(call'.key))
            IN /\ <<targets', currentTargetId', currentIndex', buffer'>> =
                     <<lower.targets, lower.currentTargetId, lower.currentIndex,
                       lower.buffer>>
               /\ Names(events') = Names(lower.events)
               /\ \A id \in DOMAIN targets :
                     startsWith(targets[id].word, NewBuffer(call'.key)) <=>
                     startsWith(toLowerCase(targets[id].originalWord),
                                Append(buffer, LowerKey(call'.key)[1]))
       /\ \A i \in 1..Len(events') : events'[i].name = "onComplete" =>
            /\ events'[i].word = targets[events'[i].id].originalWord
            /\ toLowerCase(events'[i].word) = targets[events'[i].id].word]_vars

\* the capital B completes the target registered as "Ab", reported as "Ab"
C26_Witness ==
    /\ call.op = "processKey"
    /\ call.key = <<"B">>
    /\ \E i \in 1..Len(events) :
          events[i].name = "onComplete" /\ events[i].word = <<"A", "b">>

(* C27: resetState is idempotent and total: from any state it leaves        *)
(* buffer empty, currentTargetId null and currentIndex 0 and does not touch *)
(* the live target set, and a second call immediately after leaves exactly  *)
(* the same state as the first.                                              *)
EngineOf(s) == <<s.targets, s.currentTargetId, s.currentIndex, s.buffer>>

C27_ResetIdempotent ==
    [][call'.op = "resetState" =>
        /\ buffer' = << >> /\ currentTargetId' = NULL /\ currentIndex' = 0
        /\ targets' = targets
        /\ <<targets', currentTargetId', currentIndex', buffer'>> =
              EngineOf(resetState(State))
        /\ EngineOf(resetState(resetState(State))) = EngineOf(resetState(State))
        /\ Names(events') = <<"onReset">>
        /\ UNCHANGED <<scoreVars, difficultyVars, sceneVars>>]_vars

\* a reset called while targets are live
C27_Witness ==
    /\ call.op = "resetState"
    /\ Cardinality(DOMAIN targets) >= 2
    /\ buffer = << >> /\ currentTargetId = NULL /\ currentIndex = 0

(* C28: POST /api/scores stores a score record only when player_name is a   *)
(* string that is non-empty after trimming and at most 50 characters long   *)
(* and score is a number >= 0; every other request is answered with status  *)
(* 400 and nothing is stored (by a backend whose database is configured),   *)
(* and an accuracy outside 0..100 is never stored.                           *)
Acceptable(body) ==
    /\ body.player_name.type = "string"
    /\ trim(body.player_name.value) # << >>
    /\ Len(body.player_name.value) <= 50
    /\ body.score.type = "number"
    /\ body.score.value >= 0

C28_OnlyValidScoresStored ==
    [][call'.op = "createScore" =>
        /\ scoresTable' # scoresTable => Acceptable(request')
        /\ (supabase /\ ~Acceptable(request')) =>
              returned' = Returned("status", 400) /\ scoresTable' = scoresTable
        /\ \A i \in 1..Len(scoresTable') :
              /\ scoresTable'[i].accuracy.type = "number"
              /\ scoresTable'[i].accuracy.value \in 0..100]_vars

(* C29: in every reachable state of TypingEngine in which buffer is         *)
(* non-empty and currentTargetId is null, more than one live target's word  *)
(* starts with buffer, also after targets matching the buffer have been     *)
(* removed by removeTarget.                                                  *)
C29_UnlockedBufferIsAmbiguous ==
    (buffer # << >> /\ currentTargetId = NULL) => Cardinality(Matching(buffer)) > 1

(* C30: in every reachable state of TypingEngine, currentTargetId is null   *)
(* whenever buffer is empty; backspacing the buffer down to the empty       *)
(* string never leaves or creates a lock.                                    *)
C30_EmptyBufferHasNoLock ==
    buffer = << >> => currentTargetId = NULL

TierOfLevel(l) == IF l < 5 THEN "easy" ELSE IF l < 10 THEN "moderate" ELSE "hard"
SpeedOfLevel(l) == baseEnemySpeedTenths + (l - 1) * speedIncrementTenths

\* the frame just run spawned the entity it was given an id for
Spawned == call.op = "gameLoop" /\ call.id \in DOMAIN entities

(* C32: every spawn performed at level L draws its word from the easy pool   *)
(* if L < 5, the moderate pool if 5 <= L < 10 and the hard pool if L >= 10,  *)
(* gives the asteroid the enemy speed of level L and registers the word in  *)
(* TypingEngine under the id of the spawned entity; a frame that spawns      *)
(* nothing registers nothing.                                                *)
C32_SpawnFollowsLevel ==
    [][call'.op = "gameLoop" =>
          LET id == call'.id
          IN IF id \in DOMAIN entities'
             THEN /\ level' = level
                  /\ entities'[id].word \in WordsOf(ListOf(TierOfLevel(level)))
                  /\ entities'[id].speed = SpeedOfLevel(level)
                  /\ id \in DOMAIN targets'
                  /\ targets'[id].originalWord = entities'[id].word
                  /\ targets'[id].word = toLowerCase(entities'[id].word)
             ELSE /\ entities' = entities
                  /\ targets' = targets]_vars

\* a moderate and a hard asteroid have been spawned, faster than the first
C32_Witness ==
    /\ Spawned
    /\ level >= 10
    /\ entities[call.id].word \in WordsOf(hardWords)
    /\ entities[call.id].speed > baseEnemySpeedTenths

\* what the game holds apart from the record of the last call
gameVars == <<engineVars, scoreVars, difficultyVars, sceneVars, clockVars, apiVars,
              backendVars, wordVars>>

\* the 'game-over' events among the events of the scene
IsGameOver(e) == e.name = "game-over"
GameOvers(evs) == SelectSeq(evs, IsGameOver)

(* C33: stopGame called while the state is GAMEOVER does nothing; every      *)
(* entry into GAMEOVER produces exactly one game-over event carrying the     *)
(* ScoreManager stats of that moment and exactly one submitScore call with   *)
(* the score of that snapshot, and no other step produces either.            *)
C33_OneGameOverPerEntry ==
    [][LET entered == state # "GAMEOVER" /\ state' = "GAMEOVER"
       IN /\ entered =>
                /\ Len(GameOvers(sceneEmitted')) = 1
                /\ GameOvers(sceneEmitted')[1].detail.score = score'
                /\ GameOvers(sceneEmitted')[1].detail.wordsTyped = wordsTyped'
                /\ GameOvers(sceneEmitted')[1].detail.mistakes = mistakes'
                /\ GameOvers(sceneEmitted')[1].detail.maxStreak = streak'
                /\ score' = score /\ wordsTyped' = wordsTyped
                /\ Len(submitted') = 1
                /\ submitted'[1].score = GameOvers(sceneEmitted')[1].detail.score
                /\ pending' = pending + 1
          /\ ~entered =>
                /\ GameOvers(sceneEmitted') = << >>
                /\ submitted' = << >>
                /\ pending' <= pending
          /\ (call'.op = "stopGame" /\ state = "GAMEOVER") => gameVars' = gameVars]_vars

\* stopGame has been called on a session that was over, with points scored
C33_Witness ==
    /\ call.op = "stopGame"
    /\ state = "GAMEOVER"
    /\ GameOvers(sceneEmitted) = << >>
    /\ score > 0
    /\ pending = 1

(* C34: with an empty buffer and an unchanged target set, typing the        *)
(* letters of any live target's word in order ends with onComplete for a    *)
(* target carrying that word and with no onMistake, also when the word is a *)
(* proper prefix of another live word or is carried by two live targets.    *)
C34_TypedWordCompletes ==
    [][call'.op = "typeLetters" =>
          /\ \E i \in 1..Len(events') :
                /\ events'[i].name = "onComplete"
                /\ events'[i].id \in DOMAIN targets
                /\ targets[events'[i].id].word = call'.word
          /\ ~Emitted(events', "onMistake")]_vars

\* the calls of fn among the invocations
Invocations(invs, fn) == Cardinality({i \in 1..Len(invs) : invs[i].fn = fn})

\* onComplete is among the signals for the target id
CompletedIn(evs, id) ==
    \E i \in 1..Len(evs) : evs[i].name = "onComplete" /\ evs[i].id = id

(* C35: for every spawned target, ScoreManager.handleWordComplete and        *)
(* DifficultyManager.onWordTyped are each invoked at most once and only if   *)
(* onComplete was emitted for the target's id: a step scores at most one     *)
(* asteroid, one that was not destroyed and whose word was completed before  *)
(* or in this step, and leaves it destroyed or gone, so that no word is      *)
(* scored twice and no untyped asteroid is scored.                           *)
C35_ScoredOnceWhenTyped ==
    [][/\ Len(scored') <= 1
       /\ Invocations(invoked', "handleWordComplete") = Len(scored')
       /\ Invocations(invoked', "onWordTyped") = Len(scored')
       /\ \A i \in 1..Len(scored') :
             LET id == scored'[i]
             IN /\ id \in DOMAIN entities
                /\ ~entities[id].destroyed
                /\ entities[id].completed \/ CompletedIn(events', id)
                /\ id \in DOMAIN entities' => entities'[id].destroyed]_vars

\* an asteroid is scored when the projectile fired at its completion hits it
C35_Witness ==
    /\ call.op = "projectileTick"
    /\ scored = <<call.id>>
    /\ Invocations(invoked, "handleWordComplete") = 1
    /\ score > 0

\* the takeDamage calls of the shield and of the Earth among the events
IsDamage(e) == e.name \in {"shield-damaged", "earth-damaged"}
Damages(evs) == SelectSeq(evs, IsDamage)

(* C36: once onComplete has been emitted for a target, the asteroid carrying *)
(* that word never afterwards reduces the shield strength or the Earth       *)
(* health, whatever the interleaving of asteroid ticks and projectile ticks. *)
C36_CompletedNeverDamages ==
    [][\A i \in 1..Len(Damages(sceneEmitted')) :
          LET id == Damages(sceneEmitted')[i].detail
          IN id \in DOMAIN entities => ~entities[id].completed]_vars


(* C37: under any interleaving of startGame, pauseGame, resumeGame,          *)
(* stopGame, cleanupGame, resetGame and animation frames, at most one        *)
(* gameLoop callback is scheduled at any time.                               *)
C37_OneLoopScheduled == scheduled <= 1

\* the level at which an asteroid was spawned, read from the speed it was given
SpawnLevel(entity) ==
    1 + (entity.speed - baseEnemySpeedTenths) \div speedIncrementTenths

\* the handleWordComplete calls among the invocations
IsWordComplete(inv) == inv.fn = "handleWordComplete"
WordCompletes(invs) == SelectSeq(invs, IsWordComplete)

(* C38: the tier multiplier applied when a word is scored is that of the    *)
(* tier from which the word was drawn when it was spawned, also when the    *)
(* level has risen between the spawn and the scoring of that word.          *)
C38_ScoredWithSpawnTier ==
    [][\A i \in 1..Len(scored') :
          LET entity == entities[scored'[i]]
              inv == WordCompletes(invoked')[i]
          IN /\ inv.word = entity.word
             /\ inv.tier = TierOfLevel(SpawnLevel(entity))
             /\ entity.word \in WordsOf(ListOf(inv.tier))]_vars
====
